---- MODULE Spec2Model ----
(***************************************************************************)
(* The seeding engine of mapproxy/core/seed_ng.py: the recursive meta-tile *)
(* traversal of TileSeeder._seed_location, the bounded queue and the       *)
(* workers of SeedPool / SeedWorker, exp_backoff, and the orchestration of *)
(* seed_from_yaml_conf: TileSeeder.seed_location over the views and the    *)
(* caches of a layer, followed by TileSeeder.cleanup.                      *)
(*                                                                         *)
(* MetaGrid, bbox_contains and bbox_intersects live in mapproxy.core.grid, *)
(* which is not part of the sources at hand; they are modelled from the    *)
(* specification (sections 4.1 and 4.2).  So are the cache manager        *)
(* (load_tile_coords, expire_timestamp), cleanup_directory and SRS         *)
(* (sections 4.7 and 6).                                                   *)
(***************************************************************************)
EXTENDS Integers, Sequences, FiniteSets, TLC

VARIABLES
    bbox,          \* the target bbox of _seed_location, in the cache's CRS
    lo,            \* level[0]
    hi,            \* level[1]
    grid_levels,   \* cache.grid.levels
    dry_run,       \* TileSeeder.dry_run, handed to the pool and its workers
    stack,         \* the call stack of _seed (innermost frame last)
    ppc,           \* where _seed_location is: "seed", "stop_put", "stop_join", "done"
    stop_i,        \* sentinels put so far by SeedPool.stop
    join_i,        \* workers joined so far by SeedPool.stop
    queue,         \* SeedPool.tiles_queue
    wpc,           \* each SeedWorker: "idle", "working", "stopped", "failed"
    wbo,           \* each SeedWorker's running exp_backoff call
    werr,          \* each SeedWorker: what ended it ("none", "recoverable", "other")
    wsent,         \* history: sentinels each worker has dequeued
    visited,       \* history: the frames _seed was called for, in call order
    submitted,     \* history: the work items handed to seed_pool.seed, in order
    taken,         \* history: the work items dequeued by workers, in order
    bk,            \* a stand-alone exp_backoff call (its parameters and progress)
    remove_before, \* TileSeeder.remove_before (NoTimestamp: not set)
    views,         \* the views of the layer's seed options, in order
    caches,        \* TileSeeder.caches: each cache's srs, files and expire_timestamp
    opc,           \* where seed_from_yaml_conf is: "view", "seeding", "cleanup",
                   \* "finished", "raised"
    vi,            \* index of the current view
    ci,            \* index of the current cache (seed_location and cleanup loops)
    li,            \* cleanup: the next level i of range(cache.grid.levels)
    oerr,          \* the exception that left seed_from_yaml_conf ("none" if none)
    wtiles,        \* each SeedWorker's local variable tiles
    frames,        \* history: per call of _seed, what its loop over subtiles did
    upstream,      \* history: the (cache, tile) pairs rendered from the source
    removed,       \* history: the (cache, tile) files cleanup removed
    reported,      \* history: the (cache, tile) files cleanup handed to file_handler
    pools,         \* history: the SeedPools created (each starts PoolSize workers)
    caches0,       \* history: the caches as they were before seeding
    ss             \* a stand-alone table of status_symbol values (total, results)

vars == <<bbox, lo, hi, grid_levels, dry_run, stack, ppc, stop_i, join_i, queue,
          wpc, wbo, werr, wsent, visited, submitted, taken, bk,
          remove_before, views, caches, opc, vi, ci, li, oerr, wtiles, frames,
          upstream, removed, reported, pools, caches0, ss>>

inputVars == <<bbox, lo, hi, grid_levels, dry_run>>
producerVars == <<stack, ppc, stop_i, join_i, visited, submitted, frames>>
workerVars == <<wpc, wbo, werr, wsent, taken, wtiles>>
seederVars == <<remove_before, views, opc, vi, ci, li, oerr, removed, reported, pools,
                caches0>>
cacheVars == <<caches, upstream>>

-----------------------------------------------------------------------------
(* Bounds of the model. *)

\* Deepest level of the grids the traversal is explored on exhaustively.
MaxLevel == 2
\* Largest max_repeat the stand-alone exp_backoff call is explored with.
MaxRepeatBound == 5
\* Largest start_backoff_sec the stand-alone exp_backoff call is explored with.
MaxStart == 3
\* Timestamps are 1..MaxTime; the seeding runs at time MaxTime.
MaxTime == 3
\* Largest total the stand-alone status_symbol call is explored with.
MaxTotal == 14
\* Levels of the grid seed_from_yaml_conf is explored on.
SeederLevels == 2

(* Program constants. *)

\* multiprocessing.Queue(16)
QueueCap == 16
\* SeedPool.__init__(..., size=2, ...)
PoolSize == 2
\* exp_backoff(func, max_repeat=10, ...)
DefaultMaxRepeat == 10
\* exp_backoff(..., start_backoff_sec=2, ...)
DefaultStartBackoff == 2

Workers == 1..PoolSize

-----------------------------------------------------------------------------
(* Arithmetic helpers. *)

RECURSIVE Pow2(_)
Pow2(n) == IF n <= 0 THEN 1 ELSE 2 * Pow2(n - 1)

CeilDiv(a, b) == -((-a) \div b)

-----------------------------------------------------------------------------
(* The grid (mapproxy.core.grid, modelled from the specification).         *)
(* Coordinates are integers; the unit is the width of a meta-tile of the   *)
(* grid's deepest level.  Level l holds 2^l x 2^l meta-tiles.              *)

\* The placeholder get_affected_level_tiles yields for a tile outside the grid.
Absent == <<-1, -1, -1>>

\* Width of the grid's extent.
WorldWidth(levels) == Pow2(levels - 1)

\* Width of one meta-tile of a level.
MetaWidth(level) == Pow2(grid_levels - 1 - level)

\* MetaGrid.meta_bbox
MetaBbox(tile) ==
    LET w == MetaWidth(tile[3])
    IN  <<tile[1] * w, tile[2] * w, (tile[1] + 1) * w, (tile[2] + 1) * w>>

\* bbox_contains(one, two): every point of two lies in one, boundary included.
BboxContains(one, two) ==
    /\ one[1] <= two[1]
    /\ one[2] <= two[2]
    /\ one[3] >= two[3]
    /\ one[4] >= two[4]

\* bbox_intersects(one, two): the interiors overlap.
BboxIntersects(one, two) ==
    /\ one[1] < two[3]
    /\ one[3] > two[1]
    /\ one[2] < two[4]
    /\ one[4] > two[2]

\* MetaGrid.get_affected_level_tiles(bbox, level)[2]: the meta-tiles of the
\* level that intersect the bbox, row by row, Absent where outside the grid.
AffectedLevelTiles(b, level) ==
    LET w  == MetaWidth(level)
        x0 == b[1] \div w
        x1 == CeilDiv(b[3], w) - 1
        y0 == b[2] \div w
        y1 == CeilDiv(b[4], w) - 1
        nx == x1 - x0 + 1
        ny == y1 - y0 + 1
        n  == Pow2(level)
    IN  [k \in 1..(nx * ny) |->
            LET x == x0 + ((k - 1) % nx)
                y == y0 + ((k - 1) \div nx)
            IN  IF x >= 0 /\ x < n /\ y >= 0 /\ y < n
                THEN <<x, y, level>> ELSE Absent]

\* All meta-tiles of a level of the grid.
MetaTiles(level) ==
    {<<x, y, level>> : x \in 0..(Pow2(level) - 1), y \in 0..(Pow2(level) - 1)}

-----------------------------------------------------------------------------
(* status_symbol and the traversal of TileSeeder._seed_location.           *)

Symbols == <<" ", ".", "o", "O", "0">>

\* Faulty variant of StatusSymbol: the overflow test is i >= total.
StatusSymbolOverflowEarly(i, total) ==
    LET j == i + 1
    IN  IF 0 < j /\ j >= total
        THEN "X"
        ELSE Symbols[CeilDiv(4 * j, total) + 1]

\* status_symbol(i, total)
StatusSymbol(i, total) ==
    LET j == i + 1
    IN  IF 0 < j /\ j > total
        THEN "X"
        ELSE Symbols[CeilDiv(4 * j, total) + 1]

\* The table [status_symbol(i, total) for i in range(total + 1)] of the
\* doctest, before its first entry.
StatusCall(total) == [total |-> total, results |-> <<>>]

\* Faulty variant of Intersects: the bbox_intersects test is lost, so a sub_bbox that
\* is not contained counts as disjoint.
IntersectsContainedOnly(sub_bbox) ==
    IF BboxContains(bbox, sub_bbox) THEN -1 ELSE 0

\* intersects(sub_bbox): -1 contained in the target bbox, 1 intersecting, 0 neither.
Intersects(sub_bbox) ==
    IF BboxContains(bbox, sub_bbox) THEN -1
    ELSE IF BboxIntersects(bbox, sub_bbox) THEN 1
    ELSE 0

\* The intersection value _seed computes for one subtile.
Intersection(subtile, full_intersect) ==
    IF full_intersect THEN -1 ELSE Intersects(MetaBbox(subtile))

\* What one pass of the loop over subtiles computes: (sub_bbox, intersection),
\* with intersection 0 for a subtile that is None and skipped.
SubSeedCandidate(subtile, full_intersect) ==
    IF subtile = Absent
    THEN <<<<0, 0, 0, 0>>, 0>>
    ELSE <<MetaBbox(subtile), Intersection(subtile, full_intersect)>>

\* Line 134: a candidate is appended to sub_seeds if its intersection is not 0.
IsSubSeed(candidate) == candidate[2] # 0

\* The loop that fills sub_seeds, from the k-th subtile on: absent subtiles
\* and those with intersection 0 are left out, the others kept in order as
\* (sub_bbox, intersection).
SubSeedsFrom(subtiles, k, full_intersect) ==
    SelectSeq([j \in 1..(Len(subtiles) - k + 1) |->
                  SubSeedCandidate(subtiles[j + k - 1], full_intersect)],
              IsSubSeed)

\* Line 131: a subtile that is not None.
IsPresent(subtile) == subtile # Absent

\* The number of subtiles the loop does not skip.
PresentCount(subtiles) == Len(SelectSeq(subtiles, IsPresent))

\* The number of intersects(sub_bbox) evaluations of the loop over subtiles:
\* one per present subtile, none when level = max_level or under full_intersect.
RelationCalls(subtiles, level, max_level, full_intersect) ==
    IF level < max_level /\ ~full_intersect
    THEN PresentCount(subtiles)
    ELSE 0

\* sub_seeds of a frame: filled only when level < max_level.
SubSeeds(subtiles, level, max_level, full_intersect) ==
    IF level < max_level
    THEN SubSeedsFrom(subtiles, 1, full_intersect)
    ELSE <<>>

\* A call of _seed up to its loop over sub_seeds: its arguments, subtiles and
\* sub_seeds, and the index of the next sub_seed to descend into.  path (the
\* child indices from the root) identifies the frame in the histories.
SeedFrame(cur_bbox, level, max_level, id, full_intersect, path) ==
    LET subtiles == AffectedLevelTiles(cur_bbox, level)
    IN  [cur_bbox       |-> cur_bbox,
         level          |-> level,
         id             |-> id,
         full_intersect |-> full_intersect,
         subtiles       |-> subtiles,
         sub_seeds      |-> SubSeeds(subtiles, level, max_level, full_intersect),
         tested         |-> RelationCalls(subtiles, level, max_level, full_intersect),
         next           |-> 1,
         path           |-> path]

\* What the history keeps of a call of _seed: intersection is the value the
\* caller's loop computed for it (1 for the root call, whose full_intersect
\* defaults to False), tested the intersects() evaluations of its own loop,
\* present its subtiles other than absent ones.
FrameRecord(f, intersection) ==
    [path           |-> f.path,
     level          |-> f.level,
     full_intersect |-> f.full_intersect,
     intersection   |-> intersection,
     tested         |-> f.tested,
     present        |-> PresentCount(f.subtiles),
     sub_seeds      |-> Len(f.sub_seeds)]

Top == stack[Len(stack)]

Pop(s) == SubSeq(s, 1, Len(s) - 1)

\* What seed_pool.seed(id, subtiles) puts on the queue.
WorkItem(id, subtiles) == [seed_id |-> id, tiles |-> subtiles, is_none |-> FALSE]

\* (None, None)
Sentinel == [seed_id |-> <<>>, tiles |-> <<>>, is_none |-> TRUE]

\* Faulty variant of CanPut: a queue without a maximum size.
CanPutUnbounded(q) == TRUE

\* Queue.put: blocks while the queue holds QueueCap entries.
CanPut(q) == Len(q) < QueueCap

\* Faulty variant of SeedDescend: full_intersect is not handed down.
SeedDescendNoShortCircuit ==
    /\ ppc = "seed"
    /\ Top.next <= Len(Top.sub_seeds)
    /\ LET f       == Top
           i       == f.next - 1
           sub     == f.sub_seeds[f.next]
           seed_id == Append(f.id, StatusSymbol(i, Len(f.sub_seeds)))
           child   == SeedFrame(sub[1], f.level + 1, hi, seed_id, FALSE,
                                Append(f.path, f.next))
       IN  /\ stack' = Append([stack EXCEPT ![Len(stack)].next = f.next + 1], child)
           /\ visited' = Append(visited, child.path)
           /\ frames' = Append(frames, FrameRecord(child, sub[2]))
    /\ UNCHANGED <<inputVars, ppc, stop_i, join_i, submitted, queue, workerVars, bk, ss,
                   seederVars, cacheVars>>

\* The recursive call inside the loop over sub_seeds (lines 139-143).
SeedDescend ==
    /\ ppc = "seed"
    /\ Top.next <= Len(Top.sub_seeds)
    /\ LET f       == Top
           i       == f.next - 1
           sub     == f.sub_seeds[f.next]
           seed_id == Append(f.id, StatusSymbol(i, Len(f.sub_seeds)))
           child   == SeedFrame(sub[1], f.level + 1, hi, seed_id, sub[2] = -1,
                                Append(f.path, f.next))
       IN  /\ stack' = Append([stack EXCEPT ![Len(stack)].next = f.next + 1], child)
           /\ visited' = Append(visited, child.path)
           /\ frames' = Append(frames, FrameRecord(child, sub[2]))
    /\ UNCHANGED <<inputVars, ppc, stop_i, join_i, submitted, queue, workerVars, bk, ss,
                   seederVars, cacheVars>>

\* Faulty variant of SeedSubmit: only the recursive calls submit their batch, the
\* root call returns without one.
SeedSubmitNotRoot ==
    /\ ppc = "seed"
    /\ Top.next > Len(Top.sub_seeds)
    /\ IF Len(stack) = 1
       THEN UNCHANGED <<queue, submitted>>
       ELSE /\ Len(queue) < QueueCap
            /\ queue' = Append(queue, [seed_id |-> Top.id, tiles |-> Top.subtiles,
                                       is_none |-> FALSE])
            /\ submitted' = Append(submitted,
                                   [seed_id |-> Top.id, tiles |-> Top.subtiles,
                                    path |-> Top.path, level |-> Top.level])
    /\ stack' = SubSeq(stack, 1, Len(stack) - 1)
    /\ ppc' = IF Len(stack) = 1 THEN "stop_put" ELSE "seed"
    /\ UNCHANGED <<inputVars, stop_i, join_i, visited, frames, workerVars, bk, ss,
                   seederVars, cacheVars>>

\* The end of a call of _seed: seed_pool.seed(id, subtiles), then return.
\* When the root call returns, _seed_location goes on to seed_pool.stop().
SeedSubmit ==
    /\ ppc = "seed"
    /\ Top.next > Len(Top.sub_seeds)
    /\ CanPut(queue)
    /\ queue' = Append(queue, WorkItem(Top.id, Top.subtiles))
    /\ submitted' = Append(submitted,
                           [seed_id |-> Top.id, tiles |-> Top.subtiles,
                            path |-> Top.path, level |-> Top.level])
    /\ stack' = Pop(stack)
    /\ ppc' = IF Len(stack) = 1 THEN "stop_put" ELSE "seed"
    /\ UNCHANGED <<inputVars, stop_i, join_i, visited, frames, workerVars, bk, ss,
                   seederVars, cacheVars>>

-----------------------------------------------------------------------------
(* exp_backoff.                                                            *)

\* A call exp_backoff(func, max_repeat, start_backoff_sec, exceptions) before
\* its first attempt.  calls, failures, slept and last are histories: the
\* invocations of func, those that raised one of `exceptions`, the seconds
\* slept in total and in the last sleep.  error is what the last invocation
\* of func raised: "none", "recoverable" (one of `exceptions`) or "other".
BackoffCall(max_repeat, start_backoff_sec) ==
    [max_repeat |-> max_repeat, start |-> start_backoff_sec,
     n |-> 0, calls |-> 0, failures |-> 0, slept |-> 0, last |-> 0,
     error |-> "none", status |-> "running"]

\* Faulty variant of ExpBackoffStep: the except clause catches every
\* exception, so an error outside `exceptions` is slept on and retried too.
ExpBackoffStepCatchesAll(b, outcome) ==
    LET called == [b EXCEPT !.calls = b.calls + 1]
    IN  CASE outcome = "ok" ->
                [called EXCEPT !.status = "returned", !.error = "none"]
          [] outcome \in {"recoverable", "other"} ->
                IF (b.n + 1) >= b.max_repeat
                THEN [called EXCEPT !.status = "raised",
                                    !.error = outcome,
                                    !.failures = b.failures + 1]
                ELSE LET wait_for == b.start * Pow2(b.n)
                     IN  [called EXCEPT !.failures = b.failures + 1,
                                        !.error = outcome,
                                        !.slept = b.slept + wait_for,
                                        !.last = wait_for,
                                        !.n = b.n + 1]

\* Faulty variant of ExpBackoffStep: the retry test compares n, not n + 1, with
\* max_repeat.
ExpBackoffStepOffByOne(b, outcome) ==
    LET called == [b EXCEPT !.calls = b.calls + 1]
    IN  CASE outcome = "ok" ->
                [called EXCEPT !.status = "returned", !.error = "none"]
          [] outcome = "other" ->
                [called EXCEPT !.status = "raised", !.error = "other"]
          [] outcome = "recoverable" ->
                IF b.n >= b.max_repeat
                THEN [called EXCEPT !.status = "raised",
                                    !.error = "recoverable",
                                    !.failures = b.failures + 1]
                ELSE [called EXCEPT !.failures = b.failures + 1,
                                    !.error = "recoverable",
                                    !.slept = b.slept + b.start * Pow2(b.n),
                                    !.last = b.start * Pow2(b.n),
                                    !.n = b.n + 1]

\* One pass of the while loop.  outcome is what func() did: "ok" (it returned),
\* "recoverable" (it raised one of `exceptions`) or "other" (it raised
\* anything else, which the except clause does not catch).
ExpBackoffStep(b, outcome) ==
    LET called == [b EXCEPT !.calls = b.calls + 1]
    IN  CASE outcome = "ok" ->
                [called EXCEPT !.status = "returned", !.error = "none"]
          [] outcome = "other" ->
                [called EXCEPT !.status = "raised", !.error = "other"]
          [] outcome = "recoverable" ->
                IF (b.n + 1) >= b.max_repeat
                THEN [called EXCEPT !.status = "raised",
                                    !.error = "recoverable",
                                    !.failures = b.failures + 1]
                ELSE LET wait_for == b.start * Pow2(b.n)
                     IN  [called EXCEPT !.failures = b.failures + 1,
                                        !.error = "recoverable",
                                        !.slept = b.slept + wait_for,
                                        !.last = wait_for,
                                        !.n = b.n + 1]

Outcomes == {"ok", "recoverable", "other"}

\* The value wbo holds for a worker that is not inside exp_backoff.
NoBackoff == BackoffCall(DefaultMaxRepeat, DefaultStartBackoff)

-----------------------------------------------------------------------------
(* The cache manager (mapproxy.core.cache, modelled from the specification, *)
(* section 6).  A cache is [srs, files, expire_timestamp]: files maps each  *)
(* stored tile to its mtime, expire_timestamp is the timestamp the          *)
(* predicate returns (NoTimestamp: the manager's own predicate, null).      *)

\* None, as remove_before and as the result of expire_timestamp.
NoTimestamp == 0

\* The time the seeding runs at: the mtime of a tile it renders.
Now == MaxTime

\* The tiles of a batch other than absent placeholders.
PresentTiles(tiles) == {tiles[k] : k \in 1..Len(tiles)} \ {Absent}

\* A tile load_tile_coords renders: not stored, or stored with an mtime before
\* the timestamp expire_timestamp returns.
IsStale(cache, tile) ==
    \/ tile \notin DOMAIN cache.files
    \/ /\ cache.expire_timestamp # NoTimestamp
       /\ cache.files[tile] < cache.expire_timestamp

StaleTiles(cache, tiles) == {t \in PresentTiles(tiles) : IsStale(cache, t)}

\* cache_mgr.load_tile_coords(tiles) returning: the stale tiles of the batch
\* are rendered from the source and stored with mtime Now.
LoadTileCoords(cache, tiles) ==
    LET stale == StaleTiles(cache, tiles)
    IN  [cache EXCEPT !.files = [t \in (DOMAIN cache.files) \cup stale |->
                                    IF t \in stale THEN Now ELSE cache.files[t]]]

\* A cache without tiles and with the manager's own expire_timestamp.
EmptyCache(srs) == [srs |-> srs, files |-> <<>>, expire_timestamp |-> NoTimestamp]

\* A cache that holds every tile of a grid of the given number of levels,
\* all of them stored at time Now.
SeededCache(srs, levels) ==
    [srs |-> srs,
     files |-> [t \in UNION {MetaTiles(l) : l \in 0..(levels - 1)} |-> Now],
     expire_timestamp |-> NoTimestamp]

-----------------------------------------------------------------------------
(* SeedPool.stop.                                                          *)

\* Faulty variant of SentinelCount: the loop over the workers stops one short.
SentinelCountOneShort == PoolSize - 1

\* The sentinels stop() enqueues: one per worker.
SentinelCount == PoolSize

\* self.tiles_queue.put((None, None)), once per worker.
StopPut ==
    /\ ppc = "stop_put"
    /\ CanPut(queue)
    /\ queue' = Append(queue, Sentinel)
    /\ stop_i' = stop_i + 1
    /\ ppc' = IF stop_i + 1 >= SentinelCount THEN "stop_join" ELSE "stop_put"
    /\ UNCHANGED <<inputVars, stack, join_i, visited, submitted, frames, workerVars,
                   bk, ss, seederVars, cacheVars>>

\* proc.join(), worker by worker: returns once the worker's process has ended.
StopJoin ==
    /\ ppc = "stop_join"
    /\ wpc[join_i + 1] \in {"stopped", "failed"}
    /\ join_i' = join_i + 1
    /\ ppc' = IF join_i + 1 >= PoolSize THEN "done" ELSE "stop_join"
    /\ UNCHANGED <<inputVars, stack, stop_i, visited, submitted, frames, queue,
                   workerVars, bk, ss, seederVars, cacheVars>>

-----------------------------------------------------------------------------
(* SeedWorker.run.                                                         *)

\* Faulty variant of WorkerGet: the dry_run test is lost, every batch is loaded.
WorkerGetIgnoresDryRun(w) ==
    /\ wpc[w] = "idle"
    /\ queue # <<>>
    /\ LET item == Head(queue)
       IN  /\ queue' = Tail(queue)
           /\ IF item.is_none
              THEN /\ wpc' = [wpc EXCEPT ![w] = "stopped"]
                   /\ wsent' = [wsent EXCEPT ![w] = wsent[w] + 1]
                   /\ UNCHANGED <<wbo, taken, wtiles>>
              ELSE /\ taken' = Append(taken, item)
                   /\ wpc' = [wpc EXCEPT ![w] = "working"]
                   /\ wbo' = [wbo EXCEPT ![w] = NoBackoff]
                   /\ wtiles' = [wtiles EXCEPT ![w] = item.tiles]
                   /\ UNCHANGED wsent
    /\ UNCHANGED <<inputVars, producerVars, werr, bk, ss, seederVars, cacheVars>>

\* self.tiles_queue.get() and what follows up to the first attempt: return on
\* a sentinel; in dry-run mode go back to the queue; else enter exp_backoff.
\* wtiles holds the batch while it is being loaded (it is read nowhere else).
WorkerGet(w) ==
    /\ wpc[w] = "idle"
    /\ queue # <<>>
    /\ LET item == Head(queue)
       IN  /\ queue' = Tail(queue)
           /\ IF item.is_none
              THEN /\ wpc' = [wpc EXCEPT ![w] = "stopped"]
                   /\ wsent' = [wsent EXCEPT ![w] = wsent[w] + 1]
                   /\ UNCHANGED <<wbo, taken, wtiles>>
              ELSE /\ taken' = Append(taken, item)
                   /\ wpc' = [wpc EXCEPT ![w] = IF dry_run THEN "idle" ELSE "working"]
                   /\ wbo' = [wbo EXCEPT ![w] = NoBackoff]
                   /\ wtiles' = [wtiles EXCEPT ![w] = IF dry_run THEN <<>> ELSE item.tiles]
                   /\ UNCHANGED wsent
    /\ UNCHANGED <<inputVars, producerVars, werr, bk, ss, seederVars, cacheVars>>

\* One attempt of exp_backoff(load_tiles, exceptions=(TileSourceError, IOError))
\* with the given outcome of cache_mgr.load_tile_coords(tiles).  A call that
\* returns has stored the batch; a call that raises is taken to have stored
\* nothing.
WorkerAttempt(w, outcome) ==
    /\ wpc[w] = "working"
    /\ LET b == ExpBackoffStep(wbo[w], outcome)
       IN  CASE b.status = "returned" ->
                  /\ wpc' = [wpc EXCEPT ![w] = "idle"]
                  /\ wbo' = [wbo EXCEPT ![w] = NoBackoff]
                  /\ wtiles' = [wtiles EXCEPT ![w] = <<>>]
                  /\ caches' = [caches EXCEPT ![ci] = LoadTileCoords(caches[ci], wtiles[w])]
                  /\ upstream' = upstream \cup
                                  {<<ci, t>> : t \in StaleTiles(caches[ci], wtiles[w])}
                  /\ UNCHANGED werr
             [] b.status = "raised" ->
                  /\ wpc' = [wpc EXCEPT ![w] = "failed"]
                  /\ wbo' = [wbo EXCEPT ![w] = NoBackoff]
                  /\ werr' = [werr EXCEPT ![w] = outcome]
                  /\ UNCHANGED <<wtiles, cacheVars>>
             [] OTHER ->
                  /\ wbo' = [wbo EXCEPT ![w] = b]
                  /\ UNCHANGED <<wpc, werr, wtiles, cacheVars>>
    /\ UNCHANGED <<inputVars, producerVars, queue, wsent, taken, bk, ss, seederVars>>

\* load_tile_coords returns.
LoadOk(w) ==
    /\ wpc[w] = "working"
    /\ WorkerAttempt(w, "ok")

\* load_tile_coords raises TileSourceError or IOError.
LoadRecoverableError(w) ==
    /\ wpc[w] = "working"
    /\ WorkerAttempt(w, "recoverable")

\* load_tile_coords raises an exception of another class.
LoadOtherError(w) ==
    /\ wpc[w] = "working"
    /\ WorkerAttempt(w, "other")

-----------------------------------------------------------------------------
(* SRS (mapproxy.core.srs, modelled from the specification, section 6).    *)
(* Two reference systems: a coordinate of "B" is twice the coordinate of   *)
(* "A".  NoSrs is None, the srs of a view without bbox_srs.                *)

NoSrs == "none"

\* srs.transform_bbox_to(target, bbox) for srs = from: an axis-aligned box
\* with integer corners that contains the image of the bbox.
TransformBboxTo(from, target, b) ==
    IF from = target THEN b
    ELSE IF from = "A"
         THEN <<2 * b[1], 2 * b[2], 2 * b[3], 2 * b[4]>>
         ELSE <<b[1] \div 2, b[2] \div 2, CeilDiv(b[3], 2), CeilDiv(b[4], 2)>>

-----------------------------------------------------------------------------
(* TileSeeder.seed_location and _seed_location up to the call of _seed,    *)
(* one (view, cache) pair at a time, as called from seed_from_yaml_conf.   *)

View == views[vi]

\* The place after cache c of view v in the loops of seed_from_yaml_conf and
\* seed_location: the next cache, else the next view, else cleanup (if
\* remove_before is set) or the end.
Advance(v, c) ==
    IF c < Len(caches)
    THEN [opc |-> "view", vi |-> v, ci |-> c + 1]
    ELSE IF v < Len(views)
         THEN [opc |-> "view", vi |-> v + 1, ci |-> 1]
         ELSE IF remove_before # NoTimestamp
              THEN [opc |-> "cleanup", vi |-> v, ci |-> 1]
              ELSE [opc |-> "finished", vi |-> v, ci |-> c]

\* Line 97: the cache is seeded if the view names no srs filter or names the
\* cache's srs.
CacheSelected(view, cache) == view.cache_srs = {} \/ cache.srs \in view.cache_srs

\* Faulty variant of ExpireTimestamp: without remove_before every stored tile
\* counts as expired.
ExpireTimestampDefaultsToNow(cache) ==
    IF remove_before # NoTimestamp THEN remove_before ELSE Now

\* Lines 106-107: what the cache manager's expire_timestamp returns after
\* them; it is replaced only if remove_before is set.
ExpireTimestamp(cache) ==
    IF remove_before # NoTimestamp THEN remove_before ELSE cache.expire_timestamp

\* Lines 106-114 of _seed_location for the bbox b in the cache's CRS: install
\* remove_before as expire_timestamp, build the pool and start its workers.
\* The call of _seed (line 146) is the next step.
SeedLocationStart(b) ==
    /\ bbox' = b
    /\ lo' = View.level[1]
    /\ hi' = View.level[2]
    /\ caches' = [caches EXCEPT ![ci].expire_timestamp = ExpireTimestamp(caches[ci])]
    /\ pools' = pools + 1
    /\ opc' = "seeding"
    /\ ppc' = "call"
    /\ stack' = <<>>
    /\ stop_i' = 0
    /\ join_i' = 0
    /\ queue' = <<>>
    /\ wpc' = [w \in Workers |-> "idle"]
    /\ wbo' = [w \in Workers |-> NoBackoff]
    /\ werr' = [w \in Workers |-> "none"]
    /\ wsent' = [w \in Workers |-> 0]
    /\ wtiles' = [w \in Workers |-> <<>>]
    /\ visited' = <<>>
    /\ submitted' = <<>>
    /\ taken' = <<>>
    /\ frames' = <<>>
    /\ UNCHANGED <<grid_levels, dry_run, bk, ss, remove_before, views, vi, ci, li, oerr,
                   upstream, removed, reported, caches0>>

\* seed_location skips a cache the view's srs filter does not name.
SeedLocationSkip ==
    /\ opc = "view"
    /\ ~CacheSelected(View, caches[ci])
    /\ LET a == Advance(vi, ci)
       IN  /\ opc' = a.opc
           /\ vi' = a.vi
           /\ ci' = a.ci
    /\ UNCHANGED <<inputVars, producerVars, queue, workerVars, bk, ss, cacheVars,
                   remove_before, views, li, oerr, removed, reported, pools, caches0>>

\* _seed_location for a view whose bbox_srs is the cache's srs: line 102 is
\* false, the bbox is used as it is.
SeedLocationSameSrs ==
    /\ opc = "view"
    /\ CacheSelected(View, caches[ci])
    /\ caches[ci].srs = View.srs
    /\ SeedLocationStart(View.bbox)

\* _seed_location for a view in another CRS: the transform of line 103 returns.
SeedLocationTransform ==
    /\ opc = "view"
    /\ CacheSelected(View, caches[ci])
    /\ caches[ci].srs # View.srs
    /\ View.srs # NoSrs
    /\ SeedLocationStart(TransformBboxTo(View.srs, caches[ci].srs, View.bbox))

\* What an exception raised in _seed_location before the pool is built does:
\* it leaves seed_location and seed_from_yaml_conf (neither catches).
SeedLocationRaise(error) ==
    /\ opc' = "raised"
    /\ oerr' = error
    /\ UNCHANGED <<inputVars, producerVars, queue, workerVars, bk, ss, cacheVars,
                   remove_before, views, vi, ci, li, removed, reported, pools, caches0>>

\* Faulty variant of SeedLocationTransformFails: the bbox is transformed after
\* lines 106-109, so expire_timestamp is installed and the pool's workers are
\* running when the transform raises.
SeedLocationTransformFailsLate ==
    /\ opc = "view"
    /\ CacheSelected(View, caches[ci])
    /\ caches[ci].srs # View.srs
    /\ View.srs # NoSrs
    /\ opc' = "raised"
    /\ oerr' = "transform"
    /\ caches' = [caches EXCEPT ![ci].expire_timestamp = ExpireTimestamp(caches[ci])]
    /\ pools' = pools + 1
    /\ queue' = <<>>
    /\ wpc' = [w \in Workers |-> "idle"]
    /\ UNCHANGED <<inputVars, producerVars, wbo, werr, wsent, taken, wtiles, bk, ss,
                   upstream, remove_before, views, vi, ci, li, removed, reported,
                   caches0>>

\* _seed_location for a view in another CRS: the transform of line 103 raises.
SeedLocationTransformFails ==
    /\ opc = "view"
    /\ CacheSelected(View, caches[ci])
    /\ caches[ci].srs # View.srs
    /\ View.srs # NoSrs
    /\ SeedLocationRaise("transform")

\* _seed_location for a view without bbox_srs: srs is None, which differs
\* from the cache's srs, so line 103 calls transform_bbox_to on None.
SeedLocationNoSrs ==
    /\ opc = "view"
    /\ CacheSelected(View, caches[ci])
    /\ caches[ci].srs # View.srs
    /\ View.srs = NoSrs
    /\ SeedLocationRaise("attribute")

\* Line 146: _seed(bbox, level[0], level[1]).
SeedRootCall ==
    /\ ppc = "call"
    /\ LET root == SeedFrame(bbox, lo, hi, <<>>, FALSE, <<>>)
       IN  /\ stack' = <<root>>
           /\ visited' = << <<>> >>
           /\ frames' = <<FrameRecord(root, 1)>>
    /\ ppc' = "seed"
    /\ UNCHANGED <<inputVars, stop_i, join_i, submitted, queue, workerVars, bk, ss,
                   seederVars, cacheVars>>

\* _seed_location returns (stop() has returned): on to the next cache or
\* view, or to cleanup.
SeedLocationReturn ==
    /\ opc = "seeding"
    /\ ppc = "done"
    /\ LET a == Advance(vi, ci)
       IN  /\ opc' = a.opc
           /\ vi' = a.vi
           /\ ci' = a.ci
    /\ UNCHANGED <<inputVars, producerVars, queue, workerVars, bk, ss, cacheVars,
                   remove_before, views, li, oerr, removed, reported, pools, caches0>>

-----------------------------------------------------------------------------
(* TileSeeder.cleanup; cleanup_directory (mapproxy.core.utils) is modelled *)
(* from the specification, section 4.7.                                    *)

\* The files of a level directory with an mtime before the cutoff.
OldFiles(cache, level, cutoff) ==
    {t \in DOMAIN cache.files : t[3] = level /\ cache.files[t] < cutoff}

\* cleanup_directory(level_dir, cutoff, file_handler=None): the old files of
\* the level are removed.
CleanupDirectory(cache, level, cutoff) ==
    [cache EXCEPT !.files = [t \in (DOMAIN cache.files) \ OldFiles(cache, level, cutoff)
                                |-> cache.files[t]]]

\* Faulty variant of CleanupLevel: the loop over the levels ends one level early.
CleanupLevelSkipsDeepest ==
    /\ opc = "cleanup"
    /\ LET old == {<<ci, t, caches[ci].files[t]>> :
                      t \in OldFiles(caches[ci], li, remove_before)}
       IN  IF dry_run
           THEN /\ reported' = reported \cup old
                /\ UNCHANGED <<caches, removed>>
           ELSE /\ caches' = [caches EXCEPT
                                ![ci] = CleanupDirectory(caches[ci], li, remove_before)]
                /\ removed' = removed \cup old
                /\ UNCHANGED reported
    /\ IF li + 2 < grid_levels
       THEN /\ li' = li + 1
            /\ UNCHANGED <<ci, opc>>
       ELSE /\ li' = 0
            /\ ci' = IF ci < Len(caches) THEN ci + 1 ELSE ci
            /\ opc' = IF ci < Len(caches) THEN "cleanup" ELSE "finished"
    /\ UNCHANGED <<inputVars, producerVars, queue, workerVars, bk, ss, upstream,
                   remove_before, views, vi, oerr, pools, caches0>>

\* One pass of the inner loop of cleanup (lines 152-161) for level li of
\* cache ci: with dry_run the file_handler only reports each old file.
CleanupLevel ==
    /\ opc = "cleanup"
    /\ LET old == {<<ci, t, caches[ci].files[t]>> :
                      t \in OldFiles(caches[ci], li, remove_before)}
       IN  IF dry_run
           THEN /\ reported' = reported \cup old
                /\ UNCHANGED <<caches, removed>>
           ELSE /\ caches' = [caches EXCEPT
                                ![ci] = CleanupDirectory(caches[ci], li, remove_before)]
                /\ removed' = removed \cup old
                /\ UNCHANGED reported
    /\ IF li + 1 < grid_levels
       THEN /\ li' = li + 1
            /\ UNCHANGED <<ci, opc>>
       ELSE /\ li' = 0
            /\ ci' = IF ci < Len(caches) THEN ci + 1 ELSE ci
            /\ opc' = IF ci < Len(caches) THEN "cleanup" ELSE "finished"
    /\ UNCHANGED <<inputVars, producerVars, queue, workerVars, bk, ss, upstream,
                   remove_before, views, vi, oerr, pools, caches0>>

-----------------------------------------------------------------------------
(* The stand-alone exp_backoff call. *)

BackoffAttempt(outcome) ==
    /\ bk.status = "running"
    /\ bk' = ExpBackoffStep(bk, outcome)
    /\ ss' = ss
    /\ UNCHANGED <<inputVars, producerVars, queue, workerVars, seederVars, cacheVars>>

\* func returns.
BackoffOk ==
    /\ bk.status = "running"
    /\ BackoffAttempt("ok")

\* func raises one of `exceptions`.
BackoffRecoverableError ==
    /\ bk.status = "running"
    /\ BackoffAttempt("recoverable")

\* func raises an exception that is none of `exceptions`.
BackoffOtherError ==
    /\ bk.status = "running"
    /\ BackoffAttempt("other")

-----------------------------------------------------------------------------
(* The stand-alone table of status_symbol values. *)

\* The next entry of the table: status_symbol(i, total) for i = len(results).
StatusSymbolNext ==
    /\ Len(ss.results) <= ss.total
    /\ ss' = [ss EXCEPT !.results = Append(@, StatusSymbol(Len(@), ss.total))]
    /\ UNCHANGED <<inputVars, producerVars, queue, workerVars, seederVars, cacheVars, bk>>

-----------------------------------------------------------------------------
(* Initial states and specifications.                                      *)

\* The surroundings of a single call of _seed_location: one view in the CRS
\* of the only cache, and no remove_before.
OneCall(b, l0, l1) ==
    /\ remove_before = NoTimestamp
    /\ views = <<[bbox |-> b, level |-> <<l0, l1>>, srs |-> "A", cache_srs |-> {}]>>
    /\ opc = "seeding"
    /\ vi = 1
    /\ ci = 1
    /\ li = 0
    /\ oerr = "none"
    /\ upstream = {}
    /\ removed = {}
    /\ reported = {}
    /\ pools = 1

\* The state of _seed_location(cache, bbox, level, srs) once the pool is
\* built, its workers are started and _seed(bbox, level[0], level[1]) is called.
InitSeed(b, l0, l1, levels, dry) ==
    /\ bbox = b
    /\ lo = l0
    /\ hi = l1
    /\ grid_levels = levels
    /\ dry_run = dry
    /\ stack = <<SeedFrame(b, l0, l1, <<>>, FALSE, <<>>)>>
    /\ ppc = "seed"
    /\ stop_i = 0
    /\ join_i = 0
    /\ queue = <<>>
    /\ wpc = [w \in Workers |-> "idle"]
    /\ wbo = [w \in Workers |-> NoBackoff]
    /\ werr = [w \in Workers |-> "none"]
    /\ wsent = [w \in Workers |-> 0]
    /\ visited = << <<>> >>
    /\ submitted = <<>>
    /\ taken = <<>>
    /\ wtiles = [w \in Workers |-> <<>>]
    /\ frames = <<FrameRecord(stack[1], 1)>>
    /\ OneCall(b, l0, l1)

\* Bboxes with corners on the lattice, reaching up to one unit outside a grid.
Boxes(levels) ==
    LET c == (-1)..(WorldWidth(levels) + 1)
    IN  {<<x0, y0, x1, y1>> : x0 \in c, y0 \in c, x1 \in c, y1 \in c}

ProperBoxes(levels) == {b \in Boxes(levels) : b[1] < b[3] /\ b[2] < b[4]}

\* Dry-run seeding of every bbox and level range of a grid of MaxLevel + 1 levels.
InitTraversal ==
    /\ \E b \in ProperBoxes(MaxLevel + 1), l0 \in 0..MaxLevel, l1 \in 0..MaxLevel :
          /\ l0 <= l1
          /\ InitSeed(b, l0, l1, MaxLevel + 1, TRUE)
    /\ caches = <<EmptyCache("A")>>
    /\ caches0 = caches
    /\ bk = NoBackoff
    /\ ss = StatusCall(1)

NextTraversal ==
    \/ SeedDescend
    \/ SeedSubmit
    \/ StopPut
    \/ StopJoin
    \/ \E w \in Workers : WorkerGet(w)

SpecTraversal == InitTraversal /\ [][NextTraversal]_vars

\* The seed requests the pool is explored with, on a grid of four levels
\* (8 x 8 meta-tiles at level 3) whose cache is up to date, so that a load
\* that returns stores nothing.  Dry runs of the whole extent at levels 1..3
\* and 2..3 (21 and 17 work items, more than the queue holds); loading runs
\* of a bbox cutting through meta-tiles at levels 1..2, of a bbox inside one
\* meta-tile at levels 1..3, of the whole extent at levels 1..2 (5 work
\* items) and of a single-level request.
PoolRequests ==
    { [bbox |-> <<0, 0, 8, 8>>, lo |-> 1, hi |-> 3, levels |-> 4, dry_run |-> TRUE],
      [bbox |-> <<0, 0, 8, 8>>, lo |-> 2, hi |-> 3, levels |-> 4, dry_run |-> TRUE],
      [bbox |-> <<1, 1, 5, 3>>, lo |-> 1, hi |-> 2, levels |-> 4, dry_run |-> FALSE],
      [bbox |-> <<1, 1, 5, 3>>, lo |-> 1, hi |-> 2, levels |-> 4, dry_run |-> TRUE],
      [bbox |-> <<1, 1, 3, 2>>, lo |-> 1, hi |-> 3, levels |-> 4, dry_run |-> FALSE],
      [bbox |-> <<0, 0, 8, 8>>, lo |-> 1, hi |-> 2, levels |-> 4, dry_run |-> FALSE],
      [bbox |-> <<0, 0, 3, 3>>, lo |-> 1, hi |-> 1, levels |-> 4, dry_run |-> FALSE] }

InitPool ==
    /\ \E r \in PoolRequests :
          /\ InitSeed(r.bbox, r.lo, r.hi, r.levels, r.dry_run)
          /\ caches = <<SeededCache("A", r.levels)>>
    /\ caches0 = caches
    /\ bk = NoBackoff
    /\ ss = StatusCall(1)

ProducerStep ==
    \/ SeedDescend
    \/ SeedSubmit
    \/ StopPut
    \/ StopJoin

WorkerStep(w) ==
    \/ WorkerGet(w)
    \/ LoadOk(w)
    \/ LoadRecoverableError(w)
    \/ LoadOtherError(w)

Next ==
    \/ SeedDescend
    \/ SeedSubmit
    \/ StopPut
    \/ StopJoin
    \/ \E w \in Workers : WorkerGet(w)
    \/ \E w \in Workers : LoadOk(w)
    \/ \E w \in Workers : LoadRecoverableError(w)
    \/ \E w \in Workers : LoadOtherError(w)

Spec == InitPool /\ [][Next]_vars

\* The producer and each worker are separate OS processes: each keeps running
\* while it has a step to take.
Fairness ==
    /\ WF_vars(ProducerStep)
    /\ \A w \in Workers : WF_vars(WorkerStep(w))

\* The seed requests termination is explored with: a dry run of the whole
\* extent at levels 2..3 (17 work items, one more than the queue holds, so
\* that the traversal has to wait for the workers), and loading runs of a
\* bbox cutting through meta-tiles and of a bbox inside one meta-tile.
FairRequests ==
    { [bbox |-> <<0, 0, 8, 8>>, lo |-> 2, hi |-> 3, levels |-> 4, dry_run |-> TRUE],
      [bbox |-> <<1, 1, 5, 3>>, lo |-> 1, hi |-> 2, levels |-> 4, dry_run |-> FALSE],
      [bbox |-> <<1, 1, 3, 2>>, lo |-> 1, hi |-> 3, levels |-> 4, dry_run |-> FALSE] }

InitFair ==
    /\ \E r \in FairRequests :
          /\ InitSeed(r.bbox, r.lo, r.hi, r.levels, r.dry_run)
          /\ caches = <<SeededCache("A", r.levels)>>
    /\ caches0 = caches
    /\ bk = NoBackoff
    /\ ss = StatusCall(1)

FairSpec == InitFair /\ [][Next]_vars /\ Fairness

\* seed_from_yaml_conf for one layer.  The grid has SeederLevels levels; L
\* is its deepest level and W the width of its extent.
DeepestLevel == SeederLevels - 1

\* The tiles the first cache may hold before seeding: the tile of level 0
\* and two opposite corner tiles of the deepest level.
TrackedTiles ==
    {<<0, 0, 0>>, <<0, 0, DeepestLevel>>,
     <<Pow2(DeepestLevel) - 1, Pow2(DeepestLevel) - 1, DeepestLevel>>}

\* The mtimes a tile may have before seeding: the earliest time, or Now.
TrackedTimes == {1, Now}

\* Every choice of tracked tiles and of their mtimes.
TrackedFiles ==
    UNION {[S -> TrackedTimes] : S \in SUBSET TrackedTiles}

\* The views a layer is seeded with: the whole extent at the deepest level,
\* the corner meta-tile at the deepest level and at all levels, the corner given
\* in the other CRS, a view without bbox_srs, and a view filtered to caches
\* of the other CRS.
SeederViews ==
    LET W == WorldWidth(SeederLevels)
        L == DeepestLevel
    IN  [ whole   |-> [bbox |-> <<0, 0, W, W>>, level |-> <<L, L>>, srs |-> "A",
                       cache_srs |-> {}],
          corner  |-> [bbox |-> <<0, 0, 1, 1>>, level |-> <<L, L>>, srs |-> "A",
                       cache_srs |-> {"A"}],
          descend |-> [bbox |-> <<0, 0, 1, 1>>, level |-> <<0, L>>, srs |-> "A",
                       cache_srs |-> {}],
          other   |-> [bbox |-> <<1, 1, 2, 2>>, level |-> <<L, L>>, srs |-> "B",
                       cache_srs |-> {}],
          nosrs   |-> [bbox |-> <<0, 0, 1, 1>>, level |-> <<L, L>>, srs |-> NoSrs,
                       cache_srs |-> {}],
          filter  |-> [bbox |-> <<0, 0, 1, 1>>, level |-> <<L, L>>, srs |-> "B",
                       cache_srs |-> {"B"}] ]

\* The lists of views of a layer.
SeederViewLists ==
    LET v == SeederViews
    IN  { <<v.whole>>, <<v.corner>>, <<v.descend>>, <<v.other>>, <<v.nosrs>>,
          <<v.filter>>, <<v.corner, v.other>> }

\* The caches of a layer: one cache in CRS "A", or that cache and an empty
\* cache in CRS "B".
SeederCaches ==
    {<<[srs |-> "A", files |-> f, expire_timestamp |-> NoTimestamp]>> :
        f \in TrackedFiles}
    \cup
    {<<[srs |-> "A", files |-> f, expire_timestamp |-> NoTimestamp], EmptyCache("B")>> :
        f \in {g \in TrackedFiles : DOMAIN g = {<<0, 0, 0>>}}}

\* seed_from_yaml_conf at the first view of a layer, the TileSeeder built;
\* no pool exists yet.
InitSeeder ==
    /\ grid_levels = SeederLevels
    /\ dry_run \in BOOLEAN
    /\ remove_before \in {NoTimestamp} \cup (1..MaxTime)
    /\ views \in SeederViewLists
    /\ caches \in SeederCaches
    /\ caches0 = caches
    /\ opc = "view"
    /\ vi = 1
    /\ ci = 1
    /\ li = 0
    /\ oerr = "none"
    /\ upstream = {}
    /\ removed = {}
    /\ reported = {}
    /\ pools = 0
    /\ bbox = <<0, 0, 0, 0>>
    /\ lo = 0
    /\ hi = 0
    /\ stack = <<>>
    /\ ppc = "done"
    /\ stop_i = 0
    /\ join_i = 0
    /\ queue = <<>>
    /\ wpc = [w \in Workers |-> "none"]
    /\ wbo = [w \in Workers |-> NoBackoff]
    /\ werr = [w \in Workers |-> "none"]
    /\ wsent = [w \in Workers |-> 0]
    /\ wtiles = [w \in Workers |-> <<>>]
    /\ visited = <<>>
    /\ submitted = <<>>
    /\ taken = <<>>
    /\ frames = <<>>
    /\ bk = NoBackoff
    /\ ss = StatusCall(1)

NextSeeder ==
    \/ SeedLocationSkip
    \/ SeedLocationSameSrs
    \/ SeedLocationTransform
    \/ SeedLocationTransformFails
    \/ SeedLocationNoSrs
    \/ SeedRootCall
    \/ SeedDescend
    \/ SeedSubmit
    \/ StopPut
    \/ StopJoin
    \/ \E w \in Workers : WorkerGet(w)
    \/ \E w \in Workers : LoadOk(w)
    \/ \E w \in Workers : LoadRecoverableError(w)
    \/ \E w \in Workers : LoadOtherError(w)
    \/ SeedLocationReturn
    \/ CleanupLevel

SpecSeeder == InitSeeder /\ [][NextSeeder]_vars

\* exp_backoff on its own, for every max_repeat and start within the bounds.
InitBackoff ==
    /\ InitSeed(<<0, 0, 1, 1>>, 0, 0, 1, FALSE)
    /\ caches = <<EmptyCache("A")>>
    /\ caches0 = caches
    /\ \E m \in 1..MaxRepeatBound, s \in 0..MaxStart : bk = BackoffCall(m, s)
    /\ ss = StatusCall(1)

NextBackoff ==
    \/ BackoffOk
    \/ BackoffRecoverableError
    \/ BackoffOtherError

SpecBackoff == InitBackoff /\ [][NextBackoff]_vars

\* The status_symbol table for every total within the bound.
InitStatus ==
    /\ InitSeed(<<0, 0, 1, 1>>, 0, 0, 1, FALSE)
    /\ caches = <<EmptyCache("A")>>
    /\ caches0 = caches
    /\ bk = NoBackoff
    /\ \E total \in 1..MaxTotal : ss = StatusCall(total)

NextStatus == StatusSymbolNext

SpecStatus == InitStatus /\ [][NextStatus]_vars

-----------------------------------------------------------------------------
(* Vocabulary of the properties.                                           *)

TraversalDone == ppc # "seed"

\* The places (work item, position) at which meta-tiles of a set were submitted.
Occurrences(tiles) ==
    UNION {{<<k, j>> : j \in {i \in 1..Len(submitted[k].tiles) :
                                   submitted[k].tiles[i] \in tiles}} :
           k \in 1..Len(submitted)}

\* The meta-tiles of the requested levels whose meta_bbox intersects the target.
Wanted ==
    UNION {{m \in MetaTiles(l) : BboxIntersects(bbox, MetaBbox(m))} : l \in lo..hi}

\* The meta-tiles submitted so far.
Emitted ==
    UNION {{submitted[k].tiles[j] : j \in 1..Len(submitted[k].tiles)} \ {Absent} :
           k \in 1..Len(submitted)}

IsProperPrefix(p, q) == Len(p) < Len(q) /\ SubSeq(q, 1, Len(p)) = p

SubmittedPaths == {submitted[k].path : k \in 1..Len(submitted)}

VisitedPaths == {visited[k] : k \in 1..Len(visited)}

-----------------------------------------------------------------------------
(* C1: once the traversal has returned, every meta-tile of every level in  *)
(* [lo, hi] whose meta_bbox intersects the target bbox has been submitted, *)
(* at exactly one place of exactly one work item.                          *)
C1_Coverage ==
    TraversalDone =>
        LET wanted == Wanted
        IN  /\ wanted \subseteq Emitted
            /\ Cardinality(Occurrences(wanted)) = Cardinality(wanted)

\* A finished traversal over two level steps that met a contained, an
\* intersecting and a disjoint meta-tile below the root level.
C1_Witness ==
    /\ ppc = "done"
    /\ hi >= lo + 2
    /\ \E m \in MetaTiles(lo + 1) : Intersects(MetaBbox(m)) = 1
    /\ \E m \in MetaTiles(lo + 1) : Intersects(MetaBbox(m)) = -1
    /\ \E m \in MetaTiles(lo + 1) : Intersects(MetaBbox(m)) = 0
    /\ Cardinality(Wanted) >= 6

(* C2: no meta-tile whose meta_bbox is disjoint from the target bbox is in *)
(* any submitted work item.                                                *)
C2_NoDisjointEmitted ==
    \A m \in Emitted : BboxIntersects(bbox, MetaBbox(m))

(* C3: the traversal submits one work item per visited frame, in           *)
(* post-order: every frame of a frame's subtree is submitted before the    *)
(* frame itself, and the root frame (level lo, empty seed_id) is submitted *)
(* last, for every request.                                                *)
C3_PostOrder ==
    /\ \A i, j \in 1..Len(submitted) :
          /\ (i # j => submitted[i].path # submitted[j].path)
          /\ (IsProperPrefix(submitted[i].path, submitted[j].path) => j < i)
    /\ SubmittedPaths \subseteq VisitedPaths
    /\ TraversalDone =>
          /\ SubmittedPaths = VisitedPaths
          /\ Len(submitted) = Len(visited)
          /\ submitted[Len(submitted)].path = <<>>
          /\ submitted[Len(submitted)].level = lo
          /\ submitted[Len(submitted)].seed_id = <<>>

\* A finished traversal with frames two levels below the root and siblings.
C3_Witness ==
    /\ ppc = "done"
    /\ Len(submitted) >= 4
    /\ \E k \in 1..Len(submitted) : Len(submitted[k].path) = 2
    /\ \E k \in 1..Len(submitted) :
          Len(submitted[k].path) = 2 /\ submitted[k].path[2] >= 2

-----------------------------------------------------------------------------
(* Vocabulary of the pool's properties.                                    *)

Exited(w) == wpc[w] \in {"stopped", "failed"}

SomeWorkerFailed == \E w \in Workers : wpc[w] = "failed"

\* The work items among the submitted ones, as they were put on the queue.
SubmittedItems ==
    [k \in 1..Len(submitted) |-> WorkItem(submitted[k].seed_id, submitted[k].tiles)]

SentinelsQueued == Cardinality({k \in 1..Len(queue) : queue[k].is_none})

\* The producer is inside a put on a full queue.
PutBlocked ==
    /\ Len(queue) >= QueueCap
    /\ \/ ppc = "stop_put"
       \/ ppc = "seed" /\ Top.next > Len(Top.sub_seeds)

(* C4: the queue never holds more than its 16 entries, work items and      *)
(* sentinels together; while it is full no work item is submitted and no   *)
(* sentinel is put, and the only change to it is a worker's dequeue.       *)
C4_QueueBounded ==
    /\ [](Len(queue) <= QueueCap)
    /\ [][Len(queue) = QueueCap =>
             /\ submitted' = submitted
             /\ stop_i' = stop_i
             /\ (queue' = queue \/ queue' = Tail(queue))]_vars

\* seed_pool.seed finds the queue full.
C4_Witness ==
    /\ ppc = "seed"
    /\ PutBlocked
    /\ Len(queue) = QueueCap

(* C5: a worker that has exited has dequeued exactly one sentinel, no      *)
(* worker dequeues more than one, stop() enqueues one sentinel per worker, *)
(* and no sentinel is left in the queue when stop() has returned.          *)
C5_OneSentinelEach ==
    /\ \A w \in Workers : wsent[w] <= 1
    /\ \A w \in Workers : Exited(w) => wsent[w] = 1
    /\ stop_i <= PoolSize
    /\ ppc \in {"stop_join", "done"} => stop_i = PoolSize
    /\ ppc = "done" => SentinelsQueued = 0

(* C6: sentinels are enqueued after all work items (no submit once stop()  *)
(* has begun, no work item behind a sentinel in the queue), work items are *)
(* dequeued in the order submitted, each once, and when stop() has         *)
(* returned every submitted work item has been dequeued.                   *)
C6_NoWorkLost ==
    /\ stop_i > 0 => TraversalDone
    /\ \A i, j \in 1..Len(queue) : (i < j /\ queue[i].is_none) => queue[j].is_none
    /\ Len(taken) <= Len(submitted)
    /\ taken = SubSeq(SubmittedItems, 1, Len(taken))
    /\ ppc = "done" => taken = SubmittedItems

(* C7: under fair scheduling, unless a worker terminates on an error,      *)
(* _seed_location terminates; stop() has returned only when every worker   *)
(* has exited, and then, if no worker failed, the traversal is complete    *)
(* and the queue is empty.                                                 *)
C7_Terminates ==
    /\ <>(ppc = "done" \/ SomeWorkerFailed)
    /\ [](ppc = "done" =>
             /\ stack = <<>>
             /\ \A w \in Workers : Exited(w)
             /\ (~SomeWorkerFailed => queue = <<>>))

\* stop() has returned after a loading run over three levels in which no
\* worker failed and every work item was dequeued.
C7_Witness ==
    /\ ppc = "done"
    /\ ~dry_run
    /\ hi = lo + 2
    /\ \A w \in Workers : wpc[w] = "stopped"
    /\ Len(taken) = Len(submitted)
    /\ Len(taken) >= 3

(* C8: once a worker has terminated after exhausting its retries (and no   *)
(* worker has ended on any other error), neither seed_pool.seed nor stop() *)
(* is left blocked on a full queue with no worker to dequeue, and when     *)
(* stop() has returned every submitted work item was dequeued.             *)
C8_PoolSurvivesFailure ==
    (/\ \E w \in Workers : wpc[w] = "failed"
     /\ \A w \in Workers : wpc[w] = "failed" => werr[w] = "recoverable") =>
        /\ ~(PutBlocked /\ \A w \in Workers : Exited(w))
        /\ (ppc = "done" => Len(taken) = Len(submitted))

(* C9: a worker whose batch fails with a non-recoverable error goes on to  *)
(* the next work item: no worker ends on such an error, and a worker that  *)
(* has met one still exits only by dequeuing a sentinel.                   *)
C9_FatalErrorSkipsBatch ==
    \A w \in Workers :
        werr[w] = "other" => (wpc[w] # "failed" /\ (Exited(w) => wsent[w] = 1))

(* C10: exp_backoff invokes func at most max_repeat times; after the n-th  *)
(* recoverable failure with n < max_repeat it has slept start * 2^(n-1)    *)
(* seconds and goes on to retry; the max_repeat-th recoverable failure is  *)
(* raised; the total sleep is at most start * (2^max_repeat - 1).          *)
C10_RetryBound ==
    /\ bk.calls <= bk.max_repeat
    /\ bk.failures <= bk.max_repeat
    /\ (bk.failures >= 1 /\ bk.failures < bk.max_repeat) =>
          /\ bk.last = bk.start * Pow2(bk.failures - 1)
          /\ bk.slept = bk.start * (Pow2(bk.failures) - 1)
          /\ bk.status # "raised" \/ bk.calls > bk.failures
    /\ (bk.status = "running" => bk.calls = bk.failures)
    /\ (bk.failures = bk.max_repeat => bk.status = "raised")
    /\ bk.slept <= bk.start * (Pow2(bk.max_repeat) - 1)

\* Every attempt of a call with max_repeat >= 3 failed: the last one raised.
C10_Witness ==
    /\ bk.max_repeat >= 3
    /\ bk.start >= 1
    /\ bk.failures = bk.max_repeat
    /\ bk.status = "raised"

-----------------------------------------------------------------------------
(* Vocabulary of the properties about the caches.                          *)

CacheIds == 1..Len(caches)

\* The files cleanup has to deal with: those of the caches, as they were
\* before seeding, with an mtime before remove_before.
OldFilesBefore ==
    UNION {{<<c, t, caches0[c].files[t]>> :
               t \in {u \in DOMAIN caches0[c].files :
                         caches0[c].files[u] < remove_before}} :
           c \in CacheIds}

\* cleanup has run to its end.
CleanupDone == opc = "finished" /\ remove_before # NoTimestamp

(* C11: in a dry run no worker ever calls load_tile_coords (none is inside *)
(* exp_backoff or has failed in it), nothing is rendered from the source,  *)
(* no worker keeps a batch, every cache holds the files it held before,    *)
(* cleanup removes nothing, and once cleanup has run every file older than *)
(* remove_before has been reported instead.                                *)
C11_DryRunLeavesCache ==
    dry_run =>
        /\ \A w \in Workers : wpc[w] \notin {"working", "failed"}
        /\ \A w \in Workers : wtiles[w] = <<>>
        /\ upstream = {}
        /\ \A c \in CacheIds : caches[c].files = caches0[c].files
        /\ removed = {}
        /\ (CleanupDone => reported = OldFilesBefore)

\* A dry run that dequeued work items in its last pool and whose cleanup
\* reported an old file.
C11_Witness ==
    /\ dry_run
    /\ opc = "finished"
    /\ reported # {}
    /\ pools >= 1
    /\ Len(taken) >= 2
    /\ \A w \in Workers : wsent[w] = 1

(* C12: when remove_before is not set, every cache keeps the               *)
(* expire_timestamp it had, and a tile that was in a cache before seeding  *)
(* is never rendered from the source, is still there and has the mtime it  *)
(* had.                                                                    *)
C12_UpToDateReseed ==
    remove_before = NoTimestamp =>
        \A c \in CacheIds :
            /\ caches[c].expire_timestamp = caches0[c].expire_timestamp
            /\ \A t \in DOMAIN caches0[c].files :
                  /\ <<c, t>> \notin upstream
                  /\ t \in DOMAIN caches[c].files
                  /\ caches[c].files[t] = caches0[c].files[t]

\* A finished loading run without remove_before whose last pool loaded a
\* batch holding a tile stored long before, and rendered other tiles.
C12_Witness ==
    /\ remove_before = NoTimestamp
    /\ ~dry_run
    /\ opc = "finished"
    /\ \A w \in Workers : wpc[w] = "stopped"
    /\ \E t \in DOMAIN caches0[ci].files :
          /\ caches0[ci].files[t] < Now
          /\ \E k \in 1..Len(taken) : t \in PresentTiles(taken[k].tiles)
    /\ \E t \in DOMAIN caches[ci].files : <<ci, t>> \in upstream

\* The bbox of a view in the CRS of a cache.
ViewBbox(view, cache) == TransformBboxTo(view.srs, cache.srs, view.bbox)

\* The seeded region of a cache: the meta-tiles of the levels of some view
\* that seeds the cache whose meta_bbox intersects the view's bbox.
InSeededRegion(c, t) ==
    \E k \in 1..Len(views) :
        /\ CacheSelected(views[k], caches[c])
        /\ views[k].srs # NoSrs
        /\ t[3] >= views[k].level[1]
        /\ t[3] <= views[k].level[2]
        /\ BboxIntersects(ViewBbox(views[k], caches[c]), MetaBbox(t))

\* A pool's workers are all gone (or no pool was ever built).
NoWorkerAlive == \A w \in Workers : wpc[w] \in {"none", "stopped", "failed"}

(* C13: with remove_before set, cleanup runs only once the pool of every   *)
(* view and cache has stopped and its workers have exited; and after a     *)
(* loading run with a single pool in which no worker failed, a tile that   *)
(* was older than remove_before is, if inside the seeded region, rebuilt   *)
(* (rendered from the source, stored with mtime Now) and still there after *)
(* cleanup, and, if outside the seeded region, removed by cleanup.         *)
C13_RemoveBeforeReseed ==
    remove_before # NoTimestamp =>
        /\ (opc = "cleanup" \/ CleanupDone) =>
              /\ ppc = "done"
              /\ queue = <<>> \/ \E w \in Workers : wpc[w] = "failed"
              /\ NoWorkerAlive
        /\ (/\ CleanupDone
            /\ ~dry_run
            /\ pools = 1
            /\ \A w \in Workers : wpc[w] = "stopped") =>
              \A c \in CacheIds :
                 \A t \in DOMAIN caches0[c].files :
                    caches0[c].files[t] < remove_before =>
                       IF InSeededRegion(c, t)
                       THEN /\ <<c, t>> \in upstream
                            /\ t \in DOMAIN caches[c].files
                            /\ caches[c].files[t] = Now
                       ELSE /\ t \notin DOMAIN caches[c].files
                            /\ <<c, t, caches0[c].files[t]>> \in removed

(* C14: while a loading run's cleanup proceeds, the level directories it   *)
(* has dealt with hold no file older than remove_before; once it has run,  *)
(* no cache holds such a file at any level, every file it removed was      *)
(* older than remove_before, and every file that was not (stored before    *)
(* seeding with a later mtime, or rendered by the seeding) is still there  *)
(* with its mtime.                                                         *)
C14_CleanupCorrect ==
    (remove_before # NoTimestamp /\ ~dry_run) =>
        /\ \A r \in removed : r[3] < remove_before
        /\ opc = "cleanup" =>
              \A c \in CacheIds : \A t \in DOMAIN caches[c].files :
                  (c < ci \/ (c = ci /\ t[3] < li)) =>
                      caches[c].files[t] >= remove_before
        /\ CleanupDone =>
              /\ \A c \in CacheIds :
                    /\ \A t \in DOMAIN caches[c].files :
                          caches[c].files[t] >= remove_before
                    /\ \A t \in DOMAIN caches0[c].files :
                          caches0[c].files[t] >= remove_before =>
                              /\ t \in DOMAIN caches[c].files
                              /\ caches[c].files[t] = caches0[c].files[t]
              /\ \A u \in upstream :
                    /\ u[2] \in DOMAIN caches[u[1]].files
                    /\ caches[u[1]].files[u[2]] = Now

\* A finished cleanup that removed a file of the deepest level and kept a
\* file stored exactly at remove_before and a file rendered by the seeding.
C14_Witness ==
    /\ CleanupDone
    /\ ~dry_run
    /\ \E r \in removed : r[2][3] = DeepestLevel
    /\ \E t \in DOMAIN caches0[1].files :
          /\ caches0[1].files[t] = remove_before
          /\ t \in DOMAIN caches[1].files
    /\ upstream # {}

-----------------------------------------------------------------------------
(* Vocabulary of the properties about status_symbol.                       *)

\* The place of a symbol in " .oO0X".
SymbolRank(c) ==
    CASE c = " " -> 0 [] c = "." -> 1 [] c = "o" -> 2
      [] c = "O" -> 3 [] c = "0" -> 4 [] c = "X" -> 5

(* C16: status_symbol(0, 1) is "0"; the table for total = 4 is             *)
(* . o O 0 X and the table for total = 10 is . . o o o O O 0 0 0 X; for    *)
(* every total the entry for i = total is "X", and the entries for         *)
(* 0 <= i < total are among . o O 0 and never decrease with i.             *)
C16_StatusSymbolTable ==
    LET r == ss.results
        T == ss.total
    IN  /\ (T = 1 /\ Len(r) >= 1) => r[1] = "0"
        /\ (T = 4 /\ Len(r) = 5) => r = <<".", "o", "O", "0", "X">>
        /\ (T = 10 /\ Len(r) = 11) =>
              r = <<".", ".", "o", "o", "o", "O", "O", "0", "0", "0", "X">>
        /\ \A k \in 1..Len(r) :
              IF k = T + 1
              THEN r[k] = "X"
              ELSE /\ r[k] \in {".", "o", "O", "0"}
                   /\ k > 1 => SymbolRank(r[k - 1]) <= SymbolRank(r[k])

\* The whole table for total = 10.
C16_Witness ==
    /\ ss.total = 10
    /\ Len(ss.results) = 11

-----------------------------------------------------------------------------
(* C17: for a view without bbox_srs no exception leaves seed_location, and *)
(* while a cache is seeded for the view the traversal's bbox is the view's *)
(* bbox, unchanged.                                                        *)
C17_NoBboxSrsUsesCacheCrs ==
    View.srs = NoSrs =>
        /\ oerr = "none"
        /\ opc = "seeding" => bbox = View.bbox

-----------------------------------------------------------------------------
(* C18: a call of _seed for a sub_bbox its caller classified as contained  *)
(* (intersection -1) runs with full_intersect; a call with full_intersect  *)
(* evaluates intersects() for none of its subtiles, and below level hi     *)
(* keeps every present subtile as a sub_seed; every call below it runs     *)
(* with full_intersect too and evaluates nothing; and once the traversal   *)
(* has returned, _seed was called for each of those sub_seeds.             *)
C18_ShortCircuit ==
    \A i \in 1..Len(frames) :
        LET f == frames[i]
        IN  /\ f.intersection = -1 <=> f.full_intersect
            /\ f.full_intersect =>
                  /\ f.tested = 0
                  /\ f.level < hi => f.sub_seeds = f.present
                  /\ f.level = hi => f.sub_seeds = 0
                  /\ \A j \in 1..Len(frames) :
                        IsProperPrefix(f.path, frames[j].path) =>
                            /\ frames[j].full_intersect
                            /\ frames[j].intersection = -1
                            /\ frames[j].tested = 0
                  /\ TraversalDone =>
                        \A k \in 1..f.sub_seeds :
                            \E j \in 1..Len(frames) :
                                /\ frames[j].path = Append(f.path, k)
                                /\ frames[j].level = f.level + 1

\* A finished traversal in which the root call evaluated intersects() and
\* found a subtile contained, and the call for it, above level hi, had four
\* present subtiles, for each of which _seed was called.
C18_Witness ==
    /\ ppc = "done"
    /\ frames[1].tested >= 1
    /\ \E i \in 1..Len(frames) :
          /\ frames[i].full_intersect
          /\ frames[i].level < hi
          /\ frames[i].present >= 4
          /\ \A k \in 1..4 : \E j \in 1..Len(frames) :
                frames[j].path = Append(frames[i].path, k)

-----------------------------------------------------------------------------
(* C19 as stated: when func raises an error outside `exceptions`,         *)
(* exp_backoff has invoked func exactly once and has not slept, and the    *)
(* error is raised to the caller.                                          *)
C19_NonRecoverableOnce ==
    bk.error = "other" =>
        /\ bk.status = "raised"
        /\ bk.calls = 1
        /\ bk.slept = 0

(* C19, amended: the invocation of func that raises an error outside      *)
(* `exceptions` is the last one; the error is raised to the caller with no *)
(* sleep after it, so the sleeps are those of the recoverable failures      *)
(* before it, and a call whose first invocation raises such an error has   *)
(* invoked func once and has not slept; and a call that is still running   *)
(* or has slept after its last invocation has met a recoverable error.     *)
C19_NonRecoverableNotRetried ==
    /\ bk.error = "other" =>
          /\ bk.status = "raised"
          /\ bk.calls = bk.failures + 1
          /\ bk.n = bk.failures
          /\ bk.slept = bk.start * (Pow2(bk.failures) - 1)
          /\ bk.failures = 0 => (bk.calls = 1 /\ bk.slept = 0)
    /\ (bk.status = "running" /\ bk.calls >= 1) => bk.error = "recoverable"

\* func raised a non-recoverable error after recoverable failures, each of
\* which was slept on.
C19_Witness ==
    /\ bk.error = "other"
    /\ bk.status = "raised"
    /\ bk.failures >= 2
    /\ bk.start >= 1
    /\ bk.slept >= 3

-----------------------------------------------------------------------------
(* C20: when the transform of the view's bbox into a cache's CRS raises,   *)
(* _seed_location is left before it has done anything for that cache: the  *)
(* step builds no pool and starts no worker, submits no work item and      *)
(* leaves every cache manager's expire_timestamp as it was; afterwards the  *)
(* seeder has stopped and no worker is alive, so none waits on a queue.    *)
C20_TransformFailureAborts ==
    /\ [](oerr = "transform" =>
            /\ opc = "raised"
            /\ NoWorkerAlive
            /\ ppc = "done")
    /\ [][(oerr = "none" /\ oerr' = "transform") =>
            /\ pools' = pools
            /\ wpc' = wpc
            /\ queue' = queue
            /\ submitted' = submitted
            /\ caches' = caches
            /\ upstream' = upstream]_vars

\* With remove_before set and not a dry run, the first cache of the layer was
\* seeded and the transform into the CRS of the second cache raised: the
\* first cache has remove_before as expire_timestamp, the second does not.
C20_Witness ==
    /\ oerr = "transform"
    /\ ~dry_run
    /\ remove_before # NoTimestamp
    /\ ci = 2
    /\ pools = 1
    /\ Len(submitted) >= 1
    /\ caches[1].expire_timestamp = remove_before
    /\ caches[2].expire_timestamp = NoTimestamp

====
